---- MODULE Spec2Model ----
(***************************************************************************)
(* Model of the Query class of src/src/query.js: the fluent construction   *)
(* of a MongoDB-style filter tree (and / nor / or joins, addFilter), the   *)
(* sort / limit / skip / fields state with its `_parent` forwarding, and   *)
(* the toPlainObject / constructor pair.                                   *)
(*                                                                         *)
(* JavaScript objects are held by reference, so the model keeps two heaps: *)
(* `heap` for filter objects and `sorts` for sort objects.  A Query is a   *)
(* record of its properties; `_filter` and `_sort` are heap addresses.     *)
(***************************************************************************)
EXTENDS Integers, Sequences, FiniteSets, TLC

\* ---------------------------------------------------------------- bounds
MaxCalls == 3        \* fluent calls made in one run
MaxQueries == 3      \* Query instances alive in one run
MaxArgs == 1         \* longest argument list handed to and / nor / or

Fields == {"a", "b"}
Values == {1, 2}
JoinOps == {"$and", "$nor", "$or"}

Null == 0            \* null / undefined reference

\* queries: the Query instances, by id; heap: the filter objects, by address;
\* sorts: the sort objects, by address; log: the calls made so far and what
\* each returned; left: the calls the run may still make
VARIABLES queries, heap, sorts, log, left

vars == <<queries, heap, sorts, log, left>>

\* ------------------------------------------------------- JavaScript values
\* limit and skip hold arbitrary JavaScript values; a value is tagged.
Num(n) == [t |-> "number", n |-> n, s |-> ""]
Str(s) == [t |-> "string", n |-> 0, s |-> s]
NaN == [t |-> "NaN", n |-> 0, s |-> ""]
JSNull == [t |-> "null", n |-> 0, s |-> ""]
Undefined == [t |-> "undefined", n |-> 0, s |-> ""]
Bool(b) == [t |-> "boolean", n |-> IF b THEN 1 ELSE 0, s |-> ""]

isString(v) == v.t = "string"

\* lodash isNumber: typeof v == 'number', which NaN satisfies
isNumber(v) == v.t \in {"number", "NaN"}

\* truthiness of a JavaScript value
Truthy(v) ==
  CASE v.t = "number" -> v.n # 0
    [] v.t = "string" -> v.s # ""
    [] v.t = "boolean" -> v.n # 0
    [] OTHER -> FALSE

\* parseFloat on the strings the model feeds to the setters
parseFloat(s) ==
  CASE s = "1" -> Num(1)
    [] s = "2" -> Num(2)
    [] s = "5" -> Num(5)
    [] s = "-1" -> Num(-1)
    [] OTHER -> NaN

\* ------------------------------------------------------------ the heaps
EmptyMap == [k \in {} |-> 0]

\* a filter object: `f` holds the field entries (field -> operator mapping),
\* `j` holds the join entries ($and / $nor / $or -> array of filter addresses)
EmptyFilter == [f |-> EmptyMap, j |-> EmptyMap]

Keys(flt) == DOMAIN flt.f \cup DOMAIN flt.j

\* a sort object: the (field, direction) pairs in insertion order
EmptySort == <<>>

World == [queries |-> queries, heap |-> heap, sorts |-> sorts]

Result(w, ret, err) == [w |-> w, ret |-> ret, err |-> err]

\* the element of a singleton set: { e(x) : x \in {v} } computes v once,
\* as a statement sequence does, before e uses it
One(S) == CHOOSE x \in S : TRUE

Threw(w, err) == Result(w, Null, err)

Alloc(w, flt) == [w EXCEPT !.heap = Append(w.heap, flt)]

AllocSort(w, srt) == [w EXCEPT !.sorts = Append(w.sorts, srt)]

\* --------------------------------------------------- setter input values
\* a value assigned to `fields`: an array, a falsy value or a non-array
FArr(seq) == [t |-> "array", v |-> seq]
FNull == [t |-> "null", v |-> <<>>]
FStr == [t |-> "string", v |-> <<>>]

\* a value assigned to `sort`: an object (by address), a falsy value or a
\* truthy non-object
SObj(a) == [t |-> "object", a |-> a]
SNull == [t |-> "null", a |-> Null]
SNum == [t |-> "number", a |-> Null]

\* ------------------------------------------------------ property setters
\* set fields(fields), query.js:98-110
RECURSIVE set_fields(_, _, _)
set_fields(w, q, fields) ==
  LET fs == IF fields.t = "null" THEN FArr(<<>>) ELSE fields
  IN IF fs.t # "array"
       THEN Threw(w, "QueryError")
       ELSE IF w.queries[q]._parent # Null
              THEN set_fields(w, w.queries[q]._parent, fs)
              ELSE Result([w EXCEPT !.queries[q]._fields = fs.v], Null, "")

\* set filter(filter), query.js:122-124
set_filter(w, q, addr) ==
  Result([w EXCEPT !.queries[q]._filter = addr], Null, "")

\* set sort(sort), query.js:136-146.  With a parent the setter calls
\* this._parent.sort(sort); `sort` is an object, not a function, so the call
\* raises a TypeError.
set_sort(w, q, sort) ==
  IF sort.t = "number"
    THEN Threw(w, "QueryError")
    ELSE IF w.queries[q]._parent # Null
           THEN Threw(w, "TypeError")
           ELSE IF sort.t = "object"
                  THEN Result([w EXCEPT !.queries[q]._sort = sort.a], Null, "")
                  ELSE LET w1 == AllocSort(w, EmptySort)
                       IN Result([w1 EXCEPT !.queries[q]._sort = Len(w1.sorts)],
                                 Null, "")

\* set limit(limit), query.js:158-172
RECURSIVE set_limit(_, _, _)
set_limit(w, q, limit) ==
  LET l == IF isString(limit) THEN parseFloat(limit.s) ELSE limit
  IN IF Truthy(l) /\ ~isNumber(l)
       THEN Threw(w, "QueryError")
       ELSE IF w.queries[q]._parent # Null
              THEN set_limit(w, w.queries[q]._parent, l)
              ELSE Result([w EXCEPT !.queries[q]._limit = l], Null, "")

\* set skip(skip = 0), query.js:184-198.  With a parent the setter calls
\* this._parent.skip(skip); `skip` is a number, not a function: TypeError.
set_skip(w, q, skip) ==
  LET s0 == IF skip.t = "undefined" THEN Num(0) ELSE skip
      s == IF isString(s0) THEN parseFloat(s0.s) ELSE s0
  IN IF ~isNumber(s)
       THEN Threw(w, "QueryError")
       ELSE IF w.queries[q]._parent # Null
              THEN Threw(w, "TypeError")
              ELSE Result([w EXCEPT !.queries[q]._skip = s], Null, "")

\* ------------------------------------------------------------ constructor
OptionKeys == {"fields", "filter", "sort", "limit", "skip"}

\* an options object: `has` names the keys it carries
Options(has, fields, filter, sort, limit, skip) ==
  [has |-> has, fields |-> fields, filter |-> filter, sort |-> sort,
   limit |-> limit, skip |-> skip]

NoOptions == Options({}, FNull, Null, SNull, JSNull, Num(0))

\* the properties of an instance before the constructor assigns them
Blank ==
  [_fields |-> <<>>, _filter |-> Null, _sort |-> Null, _limit |-> Undefined,
   _skip |-> Undefined, _parent |-> Null, parent |-> Null]

\* mutant of constructor: assign(options, defaults) lets the defaults win
constructor_defaultsWin(w, options) ==
  LET id == Len(w.queries) + 1
  IN One({One({One({One({One({
       Result([r5.w EXCEPT !.queries[id]._parent = Null], id, "")
       : r5 \in {set_skip(r4.w, id, Num(0))}})
       : r4 \in {set_limit(r3.w, id, JSNull)}})
       : r3 \in {set_sort(r2.w, id, SNull)}})
       : r2 \in {set_filter(r1.w, id, Len(r1.w.heap))}})
       : r1 \in {set_fields(Alloc([w EXCEPT !.queries = Append(w.queries, Blank)],
                                  EmptyFilter),
                            id, FArr(<<>>))}})

\* constructor(options), query.js:35-86: assign() lays the options over the
\* defaults, the five properties go through their setters, then _parent is
\* set to null.  The default {} of `filter` is a fresh object.
constructor(w, options) ==
  LET id == Len(w.queries) + 1
      fields == IF "fields" \in options.has THEN options.fields ELSE FArr(<<>>)
      sort == IF "sort" \in options.has THEN options.sort ELSE SNull
      limit == IF "limit" \in options.has THEN options.limit ELSE JSNull
      skip == IF "skip" \in options.has THEN options.skip ELSE Num(0)
  IN One({One({One({One({One({One({
       IF r1.err # "" THEN Threw(w, r1.err)
       ELSE IF r3.err # "" THEN Threw(w, r3.err)
       ELSE IF r4.err # "" THEN Threw(w, r4.err)
       ELSE IF r5.err # "" THEN Threw(w, r5.err)
       ELSE Result([r5.w EXCEPT !.queries[id]._parent = Null], id, "")
       : r5 \in {set_skip(r4.w, id, skip)}})
       : r4 \in {set_limit(r3.w, id, limit)}})
       : r3 \in {set_sort(r2.w, id, sort)}})
       : r2 \in {set_filter(w1, id,
                            IF "filter" \in options.has
                              THEN options.filter ELSE Len(w1.heap))}})
       : w1 \in {IF "filter" \in options.has
                   THEN r1.w ELSE Alloc(r1.w, EmptyFilter)}})
       : r1 \in {set_fields([w EXCEPT !.queries = Append(w.queries, Blank)],
                            id, fields)}})

\* toPlainObject(), query.js:817-832
RECURSIVE toPlainObject(_, _)
toPlainObject(w, q) ==
  IF w.queries[q]._parent # Null
    THEN toPlainObject(w, w.queries[q]._parent)
    ELSE Options(OptionKeys, FArr(w.queries[q]._fields), w.queries[q]._filter,
                 SObj(w.queries[q]._sort), w.queries[q]._limit,
                 w.queries[q]._skip)

\* toJSON(), query.js:840-842
toJSON(w, q) == toPlainObject(w, q)

\* ---------------------------------------------------------------- filters
Put(m, k, v) == [x \in DOMAIN m \cup {k} |-> IF x = k THEN v ELSE m[x]]

\* a field entry that is no operator mapping but a bare value v, as in the
\* MongoDB query {a: 1}: written as the one-entry map from the empty operator
\* name, which no operator mapping has
Bare(v) == [k \in {""} |-> v]

\* lodash isObject on a field entry
isObject(entry) == "" \notin DOMAIN entry

\* mutant of addFilter: the field's mapping is replaced, not extended
addFilter_replaces(w, q, field, condition, values) ==
  LET a == w.queries[q]._filter
  IN Result([w EXCEPT !.heap[a].f =
               Put(w.heap[a].f, field, Put(EmptyMap, condition, values))],
            q, "")

\* mutant of addFilter: an equality is stored in the shorthand {field: value}
addFilter_shorthand(w, q, field, condition, values) ==
  LET a == w.queries[q]._filter
      flt == w.heap[a]
      old == IF field \in DOMAIN flt.f /\ isObject(flt.f[field])
               THEN flt.f[field] ELSE EmptyMap
      new == IF condition = "$eq" THEN Bare(values) ELSE Put(old, condition, values)
  IN Result([w EXCEPT !.heap[a].f = Put(flt.f, field, new)], q, "")

\* addFilter(field, condition, values), query.js:662-669: writes into the
\* object this.filter refers to, whoever else refers to it
addFilter(w, q, field, condition, values) ==
  LET a == w.queries[q]._filter
      flt == w.heap[a]
      old == IF field \in DOMAIN flt.f /\ isObject(flt.f[field])
               THEN flt.f[field] ELSE EmptyMap
      new == Put(old, condition, values)
  IN Result([w EXCEPT !.heap[a].f = Put(flt.f, field, new)], q, "")

\* equalTo(field, value), query.js:224-226
equalTo(w, q, field, value) == addFilter(w, q, field, "$eq", value)

\* notEqualTo(field, value), query.js:345-347
notEqualTo(w, q, field, value) == addFilter(w, q, field, "$ne", value)

\* ------------------------------------------------------------------ joins
\* an argument of and / nor / or: a Query instance, a plain object (handed
\* to the constructor as options) or a value that is no object
QArg(id) == [k |-> "query", id |-> id, opts |-> NoOptions]
OArg(opts) == [k |-> "object", id |-> Null, opts |-> opts]
BadArg == [k |-> "other", id |-> Null, opts |-> NoOptions]

\* queries.map(...) of join, query.js:687-697: the filter each argument
\* contributes, by reference.  A plain object is wrapped in a Query that
\* nothing refers to afterwards; only the objects it allocated stay.
RECURSIVE joinFilters(_, _, _, _)
joinFilters(w, args, i, acc) ==
  IF i > Len(args)
    THEN Result(w, acc, "")
    ELSE LET arg == args[i]
         IN CASE arg.k = "query" ->
                   joinFilters(w, args, i + 1,
                               Append(acc, toJSON(w, arg.id).filter))
              [] arg.k = "object" ->
                   One({IF r.err # ""
                          THEN Threw(w, r.err)
                          ELSE joinFilters([r.w EXCEPT !.queries = w.queries],
                                           args, i + 1,
                                           Append(acc, toJSON(r.w, r.ret).filter))
                        : r \in {constructor(w, arg.opts)}})
              [] OTHER -> Threw(w, "QueryError")

\* query.js:702-706: without arguments a new Query is the right-hand side;
\* the join stores the owner in its property `parent`
scopeOpen(w, self) ==
  One({Result([r.w EXCEPT !.queries[r.ret].parent = self], r.ret, "")
       : r \in {constructor(w, NoOptions)}})

\* mutant of joinMembers: queries.concat([currentQuery]) puts the left-hand
\* side last
joinMembers_lhsLast(w, self, operator, filters) ==
  LET a == w.queries[self]._filter
      w1 == Alloc(w, w.heap[a])
      currentQuery == Len(w1.heap)
  IN [w1 EXCEPT !.heap[a] =
        [f |-> EmptyMap, j |-> Put(EmptyMap, operator, filters \o <<currentQuery>>)]]

\* mutant of joinMembers: the members are copied to currentQuery but not
\* deleted from this.filter
joinMembers_keepsMembers(w, self, operator, filters) ==
  LET a == w.queries[self]._filter
      w1 == Alloc(w, w.heap[a])
      currentQuery == Len(w1.heap)
  IN [w1 EXCEPT !.heap[a].j =
        Put(w.heap[a].j, operator, <<currentQuery>> \o filters)]

\* query.js:708-718: the top-level members move to a new object
\* currentQuery, and this.filter, emptied in place, gets the single key
\* `operator` with [currentQuery].concat(queries)
joinMembers(w, self, operator, filters) ==
  LET a == w.queries[self]._filter
      w1 == Alloc(w, w.heap[a])
      currentQuery == Len(w1.heap)
  IN [w1 EXCEPT !.heap[a] =
        [f |-> EmptyMap, j |-> Put(EmptyMap, operator, <<currentQuery>> \o filters)]]

\* mutant of join: a call without arguments returns `this`, not the new Query
join_returnsThis(w, self, operator, args) ==
  One({IF m.err # ""
         THEN Threw(w, m.err)
         ELSE IF Len(m.ret) = 0
                THEN One({Result(joinMembers(s.w, self, operator,
                                             <<toJSON(s.w, s.ret).filter>>),
                                 self, "")
                          : s \in {scopeOpen(m.w, self)}})
                ELSE Result(joinMembers(m.w, self, operator, m.ret), self, "")
       : m \in {joinFilters(w, args, 1, <<>>)}})

\* join(operator, queries), query.js:680-723
join(w, self, operator, args) ==
  One({IF m.err # ""
         THEN Threw(w, m.err)
         ELSE IF Len(m.ret) = 0
                THEN One({Result(joinMembers(s.w, self, operator,
                                             <<toJSON(s.w, s.ret).filter>>),
                                 s.ret, "")
                          : s \in {scopeOpen(m.w, self)}})
                ELSE Result(joinMembers(m.w, self, operator, m.ret), self, "")
       : m \in {joinFilters(w, args, 1, <<>>)}})

\* and(...args), query.js:375-379
and(w, self, args) == join(w, self, "$and", args)

\* nor(...args), query.js:389-397
RECURSIVE nor(_, _, _)
nor(w, self, args) ==
  LET p == w.queries[self]._parent
  IN IF p # Null /\ "$and" \in DOMAIN w.heap[w.queries[p]._filter].j
       THEN nor(w, p, args)
       ELSE join(w, self, "$nor", args)

\* or(...args), query.js:407-416
RECURSIVE or(_, _, _)
or(w, self, args) ==
  LET p == w.queries[self]._parent
  IN IF p # Null
       THEN or(w, p, args)
       ELSE join(w, self, "$or", args)

\* ------------------------------------------------------------------- sort
\* mutant of SortPut: the key is deleted and inserted again, at the end
SortPut_reinserts(srt, field, direction) ==
  Append(SelectSeq(srt, LAMBDA e : e.field # field),
         [field |-> field, dir |-> direction])

\* this.sort[field] = direction: a key already present keeps its place
SortPut(srt, field, direction) ==
  IF \E i \in 1..Len(srt) : srt[i].field = field
    THEN [i \in 1..Len(srt) |->
            IF srt[i].field = field
              THEN [field |-> field, dir |-> direction]
              ELSE srt[i]]
    ELSE Append(srt, [field |-> field, dir |-> direction])

\* the body shared by ascending and descending, query.js:627-652
RECURSIVE sortBy(_, _, _, _)
sortBy(w, q, field, direction) ==
  LET p == w.queries[q]._parent
      r == IF p # Null
             THEN sortBy(w, p, field, direction).w
             ELSE [w EXCEPT !.sorts[w.queries[q]._sort] =
                     SortPut(w.sorts[w.queries[q]._sort], field, direction)]
  IN Result(r, q, "")

\* ascending(field), query.js:627-635
ascending(w, q, field) == sortBy(w, q, field, 1)

\* descending(field), query.js:644-652
descending(w, q, field) == sortBy(w, q, field, -1)

\* ---------------------------------------------------------------- actions
\* the record of a call: the method, the instance it was called on, its
\* arguments, the Query it returned (or Null), the error it raised (or ""),
\* and the plain object a toPlainObject() call returned
Call(op, self, args, field, value, r) ==
  [op |-> op, self |-> self, args |-> args, field |-> field, value |-> value,
   ret |-> r.ret, err |-> r.err, plain |-> NoOptions]

NoCall ==
  [op |-> "", self |-> Null, args |-> <<>>, field |-> "", value |-> Undefined,
   ret |-> Null, err |-> "", plain |-> NoOptions]

\* the most recent call
last == IF log = <<>> THEN NoCall ELSE log[Len(log)]

\* a call that raised leaves the state as it was
Apply(r, call) ==
  /\ left > 0
  /\ left' = left - 1
  /\ queries' = r.w.queries
  /\ heap' = r.w.heap
  /\ sorts' = r.w.sorts
  /\ log' = Append(log, call)

Ids == 1..Len(queries)

\* the argument lists of a join: Query instances, at most MaxArgs of them
ArgLists == UNION {[1..n -> {QArg(id) : id \in Ids}] : n \in 0..MaxArgs}

LimitInputs == {Num(1), Str("2"), Str("abc"), JSNull}
SkipInputs == {Num(1), Str("2"), Str("abc"), Undefined}
FieldsInputs == {FArr(<<"a">>), FNull, FStr}

New ==
  /\ Len(queries) < MaxQueries
  /\ LET r == constructor(World, NoOptions)
     IN Apply(r, Call("new", Null, <<>>, "", Undefined, r))

Construct(q) ==
  /\ Len(queries) < MaxQueries
  /\ LET r == constructor(World, toPlainObject(World, q))
     IN Apply(r, Call("construct", q, <<>>, "", Undefined, r))

EqualTo(q, field, value) ==
  LET r == equalTo(World, q, field, value)
  IN Apply(r, Call("equalTo", q, <<>>, field, Num(value), r))

And(q, args) ==
  /\ Len(args) = 0 => Len(queries) < MaxQueries
  /\ LET r == and(World, q, args)
     IN Apply(r, Call("and", q, args, "", Undefined, r))

Nor(q, args) ==
  /\ Len(args) = 0 => Len(queries) < MaxQueries
  /\ LET r == nor(World, q, args)
     IN Apply(r, Call("nor", q, args, "", Undefined, r))

Or(q, args) ==
  /\ Len(args) = 0 => Len(queries) < MaxQueries
  /\ LET r == or(World, q, args)
     IN Apply(r, Call("or", q, args, "", Undefined, r))

Ascending(q, field) ==
  LET r == ascending(World, q, field)
  IN Apply(r, Call("ascending", q, <<>>, field, Undefined, r))

Descending(q, field) ==
  LET r == descending(World, q, field)
  IN Apply(r, Call("descending", q, <<>>, field, Undefined, r))

SetFields(q, v) ==
  LET r == set_fields(World, q, v)
  IN Apply(r, Call("fields", q, <<>>, v.t, Undefined, r))

\* q.sort = {b: -1}, q.sort = null, q.sort = 5
SetSort(q, kind) ==
  LET w1 == AllocSort(World, <<[field |-> "b", dir |-> -1]>>)
      r == CASE kind = "object" -> set_sort(w1, q, SObj(Len(w1.sorts)))
             [] kind = "null" -> set_sort(World, q, SNull)
             [] OTHER -> set_sort(World, q, SNum)
  IN Apply(IF r.err = "" THEN r ELSE Threw(World, r.err),
           Call("sort", q, <<>>, kind, Undefined, r))

SetLimit(q, v) ==
  LET r == set_limit(World, q, v)
  IN Apply(r, Call("limit", q, <<>>, "", v, r))

SetSkip(q, v) ==
  LET r == set_skip(World, q, v)
  IN Apply(r, Call("skip", q, <<>>, "", v, r))

ToPlainObject(q) ==
  /\ Apply(Result(World, Null, ""),
           [op |-> "toPlainObject", self |-> q, args |-> <<>>, field |-> "",
            value |-> Undefined, ret |-> Null, err |-> "",
            plain |-> toPlainObject(World, q)])

\* the state after `new Query()`, with `budget` calls to make
InitWith(budget) ==
  LET r == constructor([queries |-> <<>>, heap |-> <<>>, sorts |-> <<>>],
                       NoOptions)
  IN /\ queries = r.w.queries
     /\ heap = r.w.heap
     /\ sorts = r.w.sorts
     /\ log = <<>>
     /\ left = budget

Init == InitWith(MaxCalls)

Next ==
  \/ New
  \/ \E q \in Ids : Construct(q)
  \/ \E q \in Ids, field \in Fields, value \in Values : EqualTo(q, field, value)
  \/ \E q \in Ids, args \in ArgLists : And(q, args)
  \/ \E q \in Ids, args \in ArgLists : Nor(q, args)
  \/ \E q \in Ids, args \in ArgLists : Or(q, args)
  \/ \E q \in Ids, field \in Fields : Ascending(q, field)
  \/ \E q \in Ids, field \in Fields : Descending(q, field)
  \/ \E q \in Ids, v \in FieldsInputs : SetFields(q, v)
  \/ \E q \in Ids, kind \in {"object", "null", "number"} : SetSort(q, kind)
  \/ \E q \in Ids, v \in LimitInputs : SetLimit(q, v)
  \/ \E q \in Ids, v \in SkipInputs : SetSkip(q, v)
  \/ \E q \in Ids : ToPlainObject(q)

Spec == Init /\ [][Next]_vars

\* ------------------------------------------------- the join specification
\* The joins alone, on up to MaxQueries instances the caller has created:
\* the first with `new Query()`, the others with `new Query()` or with
\* `new Query().equalTo('b', 2)`.
MaxJoinCalls == 3

RECURSIVE Fresh(_, _, _)
Fresh(w, n, filled) ==
  IF n = 0
    THEN w
    ELSE One({Fresh(w1, n - 1, filled)
              : w1 \in {One({IF filled /\ r.ret > 1
                               THEN equalTo(r.w, r.ret, "b", 2).w
                               ELSE r.w
                             : r \in {constructor(w, NoOptions)}})}})

InitJoin ==
  \E n \in 1..MaxQueries, filled \in BOOLEAN :
    LET w == Fresh([queries |-> <<>>, heap |-> <<>>, sorts |-> <<>>], n, filled)
    IN /\ queries = w.queries
       /\ heap = w.heap
       /\ sorts = w.sorts
       /\ log = <<>>
       /\ left = MaxJoinCalls

NextJoin ==
  \/ \E q \in Ids, field \in Fields, value \in Values : EqualTo(q, field, value)
  \/ \E q \in Ids, args \in ArgLists : And(q, args)
  \/ \E q \in Ids, args \in ArgLists : Nor(q, args)
  \/ \E q \in Ids, args \in ArgLists : Or(q, args)

SpecJoin == InitJoin /\ [][NextJoin]_vars

\* -------------------------------------------------- arrays and patterns
\* an argument that should be an array: an array of values, or null
Arr(seq) == [t |-> "array", v |-> seq]
NotArr == [t |-> "null", v |-> <<>>]

isArray(x) == x.t = "array"

\* arr[i - 1] of JavaScript: undefined beyond the end, and on a non-array
At(arr, i) == IF i <= Len(arr.v) THEN arr.v[i] ELSE Undefined

\* parseFloat on a value: a number stays, a string is parsed
parseFloatOf(v) ==
  IF isString(v) THEN parseFloat(v.s) ELSE IF v.t = "number" THEN v ELSE NaN

\* A string that is looked into (regExp.source, the regex flags) is the
\* sequence of its characters.
\* String.prototype.indexOf for one character: -1 when absent
indexOf(str, ch) ==
  IF \E i \in 1..Len(str) : str[i] = ch
    THEN (CHOOSE i \in 1..Len(str) :
            str[i] = ch /\ \A k \in 1..(i - 1) : str[k] # ch) - 1
    ELSE -1

\* a RegExp object /source/ with its flags, and a pattern given as a string
RegExp(source, ignoreCase, multiline) ==
  [re |-> TRUE, source |-> source, ignoreCase |-> ignoreCase,
   multiline |-> multiline]

Pattern(source) ==
  [re |-> FALSE, source |-> source, ignoreCase |-> FALSE, multiline |-> FALSE]

\* new RegExp(string): the source of the empty pattern is (?:)
newRegExp(str) ==
  RegExp(IF str = <<>> THEN <<"(", "?", ":", ")">> ELSE str, FALSE, FALSE)

\* the options object of matches
MatchOptions(ignoreCase, multiline, extended, dotMatchesAll) ==
  [ignoreCase |-> ignoreCase, multiline |-> multiline, extended |-> extended,
   dotMatchesAll |-> dotMatchesAll]

NoMatchOptions == MatchOptions(Undefined, Undefined, Undefined, Undefined)

\* --------------------------------------------------- validating operators
\* mutant of greaterThan: the filter is written before the value is checked
greaterThan_storesFirst(w, q, field, value) ==
  One({IF ~isNumber(value) /\ ~isString(value)
         THEN Result(r.w, Null, "QueryError")
         ELSE r
       : r \in {addFilter(w, q, field, "$gt", value)}})

\* greaterThan(field, value), query.js:274-280
greaterThan(w, q, field, value) ==
  IF ~isNumber(value) /\ ~isString(value)
    THEN Threw(w, "QueryError")
    ELSE addFilter(w, q, field, "$gt", value)

\* greaterThanOrEqualTo(field, value), query.js:292-298
greaterThanOrEqualTo(w, q, field, value) ==
  IF ~isNumber(value) /\ ~isString(value)
    THEN Threw(w, "QueryError")
    ELSE addFilter(w, q, field, "$gte", value)

\* lessThan(field, value), query.js:310-316
lessThan(w, q, field, value) ==
  IF ~isNumber(value) /\ ~isString(value)
    THEN Threw(w, "QueryError")
    ELSE addFilter(w, q, field, "$lt", value)

\* lessThanOrEqualTo(field, value), query.js:328-334
lessThanOrEqualTo(w, q, field, value) ==
  IF ~isNumber(value) /\ ~isString(value)
    THEN Threw(w, "QueryError")
    ELSE addFilter(w, q, field, "$lte", value)

\* mod(field, divisor, remainder = 0), query.js:444-462
mod(w, q, field, divisor, remainder) ==
  LET r0 == IF remainder.t = "undefined" THEN Num(0) ELSE remainder
      d == IF isString(divisor) THEN parseFloat(divisor.s) ELSE divisor
      r == IF isString(r0) THEN parseFloat(r0.s) ELSE r0
  IN IF ~isNumber(d)
       THEN Threw(w, "QueryError")
       ELSE IF ~isNumber(r)
              THEN Threw(w, "QueryError")
              ELSE addFilter(w, q, field, "$mod", <<d, r>>)

\* size(field, size), query.js:609-619
size(w, q, field, size0) ==
  LET s == IF isString(size0) THEN parseFloat(size0.s) ELSE size0
  IN IF ~isNumber(s)
       THEN Threw(w, "QueryError")
       ELSE addFilter(w, q, field, "$size", s)

\* the flags matches collects, query.js:494-506
matchFlags(regExp, options) ==
  (IF (regExp.multiline \/ Truthy(options.multiline))
       /\ options.multiline # Bool(FALSE)
     THEN <<"m">> ELSE <<>>)
  \o (IF Truthy(options.extended) THEN <<"x">> ELSE <<>>)
  \o (IF Truthy(options.dotMatchesAll) THEN <<"s">> ELSE <<>>)

\* mutant of matches: the pattern is stored without its leading `^`
matches_dropsAnchor(w, q, field, regExp0, options) ==
  LET regExp == IF regExp0.re THEN regExp0 ELSE newRegExp(regExp0.source)
      flags == matchFlags(regExp, options)
  IN IF (regExp.ignoreCase \/ Truthy(options.ignoreCase))
          /\ options.ignoreCase # Bool(FALSE)
       THEN Threw(w, "QueryError")
       ELSE IF indexOf(regExp.source, "^") # 0
              THEN Threw(w, "QueryError")
              ELSE One({IF flags # <<>>
                          THEN Result(addFilter(r.w, q, field, "$options",
                                                flags).w,
                                      r.ret, "")
                          ELSE r
                        : r \in {addFilter(w, q, field, "$regex",
                                           Tail(regExp.source))}})

\* matches(field, regExp, options = {}), query.js:477-512
matches(w, q, field, regExp0, options) ==
  LET regExp == IF regExp0.re THEN regExp0 ELSE newRegExp(regExp0.source)
      flags == matchFlags(regExp, options)
  IN IF (regExp.ignoreCase \/ Truthy(options.ignoreCase))
          /\ options.ignoreCase # Bool(FALSE)
       THEN Threw(w, "QueryError")
       ELSE IF indexOf(regExp.source, "^") # 0
              THEN Threw(w, "QueryError")
              ELSE One({IF flags # <<>>
                          THEN Result(addFilter(r.w, q, field, "$options",
                                                flags).w,
                                      r.ret, "")
                          ELSE r
                        : r \in {addFilter(w, q, field, "$regex",
                                           regExp.source)}})

\* near(field, coord, maxDistance), query.js:525-537
near(w, q, field, coord, maxDistance) ==
  IF ~isArray(coord) \/ ~isNumber(At(coord, 1)) \/ ~isNumber(At(coord, 2))
    THEN Threw(w, "QueryError")
    ELSE One({IF Truthy(maxDistance)
                THEN Result(addFilter(r.w, q, field, "$maxDistance",
                                      maxDistance).w,
                            r.ret, "")
                ELSE r
              : r \in {addFilter(w, q, field, "$nearSphere",
                                 <<At(coord, 1), At(coord, 2)>>)}})

\* the value of a $within operator: {$box: coords} or {$polygon: coords}
Within(shape, coords) == [shape |-> shape, coords |-> coords]

\* withinBox(field, bottomLeftCoord, upperRightCoord), query.js:552-571
withinBox(w, q, field, bottomLeftCoord, upperRightCoord) ==
  IF ~isArray(bottomLeftCoord) \/ ~Truthy(At(bottomLeftCoord, 1))
       \/ ~Truthy(At(bottomLeftCoord, 2))
    THEN Threw(w, "QueryError")
    ELSE IF ~isArray(upperRightCoord) \/ ~Truthy(At(upperRightCoord, 1))
              \/ ~Truthy(At(upperRightCoord, 2))
           THEN Threw(w, "QueryError")
           ELSE addFilter(w, q, field, "$within",
                  Within("$box",
                         <<<<parseFloatOf(At(bottomLeftCoord, 1)),
                             parseFloatOf(At(bottomLeftCoord, 2))>>,
                           <<parseFloatOf(At(upperRightCoord, 1)),
                             parseFloatOf(At(upperRightCoord, 2))>>>>))

\* withinPolygon(field, coords), query.js:583-597; every member of coords
\* is an array
withinPolygon(w, q, field, coords) ==
  IF ~isArray(coords) \/ Len(coords.v) > 3
    THEN Threw(w, "QueryError")
    ELSE IF \E i \in 1..Len(coords.v) :
              ~Truthy(At(coords.v[i], 1)) \/ ~Truthy(At(coords.v[i], 2))
           THEN Threw(w, "QueryError")
           ELSE addFilter(w, q, field, "$within",
                  Within("$polygon",
                         [i \in 1..Len(coords.v) |->
                            <<parseFloatOf(At(coords.v[i], 1)),
                              parseFloatOf(At(coords.v[i], 2))>>]))

\* ---------------------------------------------------- isSupportedOffline
\* query.js:13
unsupportedFilters == <<"$nearSphere">>

\* lodash findKey(this.filter, name): the first top-level key whose value has
\* a truthy property `name`, or undefined.  The value of a join key is an
\* array, which has no such property; the value near() stores under
\* $nearSphere is an array, which is truthy.
findKey(w, a, name) ==
  LET flt == w.heap[a]
      hits == {k \in DOMAIN flt.f : isObject(flt.f[k]) /\ name \in DOMAIN flt.f[k]}
  IN IF hits = {} THEN Undefined ELSE Str(CHOOSE k \in hits : TRUE)

\* the forEach of isSupportedOffline: it stops at the first unsupported filter
RECURSIVE unsupportedFrom(_, _, _, _)
unsupportedFrom(w, q, i, supported) ==
  IF i > Len(unsupportedFilters)
    THEN supported
    ELSE LET s == ~Truthy(findKey(w, w.queries[q]._filter, unsupportedFilters[i]))
         IN IF s THEN unsupportedFrom(w, q, i + 1, s) ELSE s

\* mutant of isSupportedOffline: every filter object of the tree is searched
isSupportedOffline_nested(w, q) ==
  \A a \in 1..Len(w.heap) : ~Truthy(findKey(w, a, unsupportedFilters[1]))

\* isSupportedOffline(), query.js:204-213
isSupportedOffline(w, q) == unsupportedFrom(w, q, 1, TRUE)

\* ---------------------------------------------------------- toQueryString
\* JSON.stringify of a limit / skip value: undefined has no JSON text
stringify(v) ==
  CASE v.t = "number" -> Str(ToString(v.n))
    [] v.t \in {"NaN", "null"} -> Str("null")
    [] v.t = "string" -> Str("\"" \o v.s \o "\"")
    [] v.t = "boolean" -> Str(IF v.n # 0 THEN "true" ELSE "false")
    [] OTHER -> Undefined

\* Array.prototype.join(',') on field names
RECURSIVE joinNames(_, _)
joinNames(names, i) ==
  IF i > Len(names)
    THEN ""
    ELSE (IF i > 1 THEN "," ELSE "") \o names[i] \o joinNames(names, i + 1)

\* the members of the JSON text of a sort object, in insertion order
RECURSIVE sortMembers(_, _)
sortMembers(srt, i) ==
  IF i > Len(srt)
    THEN ""
    ELSE (IF i > 1 THEN "," ELSE "") \o "\"" \o srt[i].field \o "\":"
         \o ToString(srt[i].dir) \o sortMembers(srt, i + 1)

stringifySort(srt) == Str("{" \o sortMembers(srt, 1) \o "}")

\* the members of the JSON text of a field entry; the operators' values are
\* numbers.  (The model's mappings keep no insertion order: the members are
\* written in the order of their names.)
RECURSIVE operatorMembers(_, _)
operatorMembers(entry, ks) ==
  IF ks = {}
    THEN ""
    ELSE LET k == CHOOSE x \in ks : TRUE
         IN "\"" \o k \o "\":" \o ToString(entry[k])
            \o (IF ks = {k} THEN "" ELSE ",") \o operatorMembers(entry, ks \ {k})

entryText(entry) ==
  IF isObject(entry)
    THEN "{" \o operatorMembers(entry, DOMAIN entry) \o "}"
    ELSE ToString(entry[""])

RECURSIVE fieldMembers(_, _)
fieldMembers(f, ks) ==
  IF ks = {}
    THEN ""
    ELSE LET k == CHOOSE x \in ks : TRUE
         IN "\"" \o k \o "\":" \o entryText(f[k])
            \o (IF ks = {k} THEN "" ELSE ",") \o fieldMembers(f, ks \ {k})

Text(s, err) == [s |-> s, err |-> err]

\* JSON.stringify of the filter object a.  `path` holds the objects whose
\* text is being written: meeting one of them again is a circular structure,
\* for which JSON.stringify raises a TypeError.
RECURSIVE filterText(_, _, _)
RECURSIVE arrayText(_, _, _, _)
RECURSIVE joinMembersText(_, _, _, _)
filterText(w, a, path) ==
  IF a \in path
    THEN Text("", "TypeError")
    ELSE LET flt == w.heap[a]
         IN One({IF js.err # ""
                   THEN js
                   ELSE Text("{" \o fieldMembers(flt.f, DOMAIN flt.f)
                             \o (IF DOMAIN flt.f # {} /\ DOMAIN flt.j # {}
                                   THEN "," ELSE "")
                             \o js.s \o "}", "")
                 : js \in {joinMembersText(w, flt.j, DOMAIN flt.j,
                                           path \cup {a})}})

arrayText(w, arr, i, path) ==
  IF i > Len(arr)
    THEN Text("", "")
    ELSE One({IF x.err # ""
                THEN x
                ELSE One({Text(x.s \o (IF i < Len(arr) THEN "," ELSE "") \o y.s,
                               y.err)
                          : y \in {arrayText(w, arr, i + 1, path)}})
              : x \in {filterText(w, arr[i], path)}})

joinMembersText(w, j, ks, path) ==
  IF ks = {}
    THEN Text("", "")
    ELSE LET k == CHOOSE x \in ks : TRUE
         IN One({IF x.err # ""
                   THEN x
                   ELSE One({Text("\"" \o k \o "\":[" \o x.s \o "]"
                                  \o (IF ks = {k} THEN "" ELSE ",") \o y.s,
                                  y.err)
                             : y \in {joinMembersText(w, j, ks \ {k}, path)}})
                 : x \in {arrayText(w, j[k], 1, path)}})

\* this.skip > 0 on the values the skip setter stores: NaN > 0 is false
greaterThanZero(v) == v.t = "number" /\ v.n > 0

\* toQueryString(), query.js:849-878: the mapping it returns, from key to
\* string
toQueryString(w, q) ==
  LET me == w.queries[q]
      srt == w.sorts[me._sort]
  IN One({IF query.err # ""
            THEN Threw(w, query.err)
            ELSE LET q1 == IF Keys(w.heap[me._filter]) # {}
                             THEN Put(EmptyMap, "query", Str(query.s))
                             ELSE EmptyMap
                     q2 == IF me._fields # <<>>
                             THEN Put(q1, "fields", Str(joinNames(me._fields, 1)))
                             ELSE q1
                     q3 == IF Truthy(me._limit)
                             THEN Put(q2, "limit",
                                      IF isString(me._limit) THEN me._limit
                                      ELSE stringify(me._limit))
                             ELSE q2
                     q4 == IF greaterThanZero(me._skip)
                             THEN Put(q3, "skip",
                                      IF isString(me._skip) THEN me._skip
                                      ELSE stringify(me._skip))
                             ELSE q3
                     q5 == IF srt # <<>>
                             THEN Put(q4, "sort", stringifySort(srt))
                             ELSE q4
                 IN Result(w, q5, "")
          : query \in {IF Keys(w.heap[me._filter]) # {}
                         THEN filterText(w, me._filter, {})
                         ELSE Text("", "")}})

\* ------------------------------------------- actions of the other methods
AddFilter(q, field, condition, value) ==
  LET r == addFilter(World, q, field, condition, value)
  IN Apply(r, Call("addFilter", q, <<condition>>, field, Num(value), r))

GreaterThan(q, field, value) ==
  LET r == greaterThan(World, q, field, value)
  IN Apply(r, Call("greaterThan", q, <<>>, field, value, r))

GreaterThanOrEqualTo(q, field, value) ==
  LET r == greaterThanOrEqualTo(World, q, field, value)
  IN Apply(r, Call("greaterThanOrEqualTo", q, <<>>, field, value, r))

LessThan(q, field, value) ==
  LET r == lessThan(World, q, field, value)
  IN Apply(r, Call("lessThan", q, <<>>, field, value, r))

LessThanOrEqualTo(q, field, value) ==
  LET r == lessThanOrEqualTo(World, q, field, value)
  IN Apply(r, Call("lessThanOrEqualTo", q, <<>>, field, value, r))

Mod(q, field, divisor, remainder) ==
  LET r == mod(World, q, field, divisor, remainder)
  IN Apply(r, Call("mod", q, <<divisor, remainder>>, field, Undefined, r))

Size(q, field, value) ==
  LET r == size(World, q, field, value)
  IN Apply(r, Call("size", q, <<>>, field, value, r))

Matches(q, field, regExp, options) ==
  LET r == matches(World, q, field, regExp, options)
  IN Apply(r, Call("matches", q, <<regExp, options>>, field, Undefined, r))

Near(q, field, coord, maxDistance) ==
  LET r == near(World, q, field, coord, maxDistance)
  IN Apply(r, Call("near", q, <<coord>>, field, maxDistance, r))

WithinBox(q, field, bottomLeftCoord, upperRightCoord) ==
  LET r == withinBox(World, q, field, bottomLeftCoord, upperRightCoord)
  IN Apply(r, Call("withinBox", q, <<bottomLeftCoord, upperRightCoord>>, field,
                   Undefined, r))

WithinPolygon(q, field, coords) ==
  LET r == withinPolygon(World, q, field, coords)
  IN Apply(r, Call("withinPolygon", q, <<coords>>, field, Undefined, r))

\* the call changes nothing; the log keeps the Boolean it returned
IsSupportedOffline(q) ==
  Apply(Result(World, Null, ""),
        Call("isSupportedOffline", q, <<>>, "",
             Bool(isSupportedOffline(World, q)), Result(World, Null, "")))

\* the call changes nothing; the log keeps the error it raised, if any
ToQueryString(q) ==
  Apply(Result(World, Null, ""),
        Call("toQueryString", q, <<>>, "", Undefined,
             Result(World, Null, toQueryString(World, q).err)))

\* ----------------------------------------------- the filter specification
\* addFilter and the operators built on it, the joins and
\* isSupportedOffline, on a Query made by `new Query()`, by
\* `new Query({filter: {a: 1}})` or by `new Query({filter: {a: {$gt: 1}}})`.
MaxFilterCalls == 3

Conditions == {"$gt", "$ne"}

FilterLiterals ==
  {[f |-> Put(EmptyMap, "a", Bare(1)), j |-> EmptyMap],
   [f |-> Put(EmptyMap, "a", Put(EmptyMap, "$gt", 1)), j |-> EmptyMap]}

InitFilter ==
  \E given \in BOOLEAN, literal \in FilterLiterals :
    LET w0 == [queries |-> <<>>, heap |-> IF given THEN <<literal>> ELSE <<>>,
               sorts |-> <<>>]
        r == constructor(w0, IF given
                               THEN Options({"filter"}, FNull, 1, SNull, JSNull,
                                            Num(0))
                               ELSE NoOptions)
    IN /\ queries = r.w.queries
       /\ heap = r.w.heap
       /\ sorts = r.w.sorts
       /\ log = <<>>
       /\ left = MaxFilterCalls

NextFilter ==
  \/ \E q \in Ids, field \in Fields, condition \in Conditions, value \in Values :
       AddFilter(q, field, condition, value)
  \/ \E q \in Ids, field \in Fields, value \in Values : EqualTo(q, field, value)
  \/ \E q \in Ids, field \in Fields :
       Near(q, field, Arr(<<Num(1), Num(2)>>), Undefined)
  \/ \E q \in Ids, args \in ArgLists : And(q, args)
  \/ \E q \in Ids, args \in ArgLists : Nor(q, args)
  \/ \E q \in Ids, args \in ArgLists : Or(q, args)
  \/ \E q \in Ids : IsSupportedOffline(q)

SpecFilter == InitFilter /\ [][NextFilter]_vars

\* ------------------------------------------- the validation specification
\* The operators that check their arguments, with arguments that pass and
\* arguments that do not, on one `new Query()`.
MaxOpsCalls == 2

CompareValues == {Num(1), Str("x"), JSNull}
Divisors == {Num(2), Str("5"), Str("abc"), JSNull}
Remainders == {Undefined, Num(1), Str("abc")}
Sizes == {Num(1), Str("2"), Str("abc"), JSNull}

Patterns ==
  {RegExp(<<"^", "f", "o", "o">>, FALSE, FALSE),
   RegExp(<<"f", "o", "o">>, FALSE, FALSE),
   RegExp(<<"^", "f", "o", "o">>, TRUE, FALSE),
   RegExp(<<"^", "f", "o", "o">>, FALSE, TRUE),
   Pattern(<<"^", "f">>),
   Pattern(<<>>)}

OptionSets ==
  {NoMatchOptions,
   MatchOptions(Bool(TRUE), Undefined, Undefined, Undefined),
   MatchOptions(Bool(FALSE), Bool(FALSE), Bool(TRUE), Bool(TRUE))}

Coords ==
  {Arr(<<Num(1), Num(2)>>), Arr(<<Num(1)>>), Arr(<<Str("1"), Num(2)>>), NotArr}

Distances == {Undefined, Num(1)}

Corners == {Arr(<<Num(1), Str("2")>>), Arr(<<Num(0), Num(1)>>), NotArr}

Polygons ==
  {Arr(<<Arr(<<Num(1), Num(2)>>), Arr(<<Str("2"), Num(1)>>)>>),
   Arr(<<Arr(<<Num(1), Num(2)>>), Arr(<<Num(1)>>)>>),
   Arr(<<Arr(<<Num(1), Num(2)>>), Arr(<<Num(1), Num(2)>>),
         Arr(<<Num(1), Num(2)>>), Arr(<<Num(1), Num(2)>>)>>),
   NotArr}

\* the argument lists of a join that hold a value that is no object, alone
\* or after a Query or a plain object, and two that hold none
CheckedArgLists ==
  {<<BadArg>>, <<QArg(1), BadArg>>, <<OArg(NoOptions), BadArg>>,
   <<OArg(NoOptions)>>, <<QArg(1)>>}

NextOps ==
  \/ \E q \in Ids, field \in Fields, value \in Values : EqualTo(q, field, value)
  \/ \E q \in Ids, field \in Fields, value \in CompareValues :
       GreaterThan(q, field, value)
  \/ \E q \in Ids, field \in Fields, value \in CompareValues :
       GreaterThanOrEqualTo(q, field, value)
  \/ \E q \in Ids, field \in Fields, value \in CompareValues :
       LessThan(q, field, value)
  \/ \E q \in Ids, field \in Fields, value \in CompareValues :
       LessThanOrEqualTo(q, field, value)
  \/ \E q \in Ids, field \in Fields, divisor \in Divisors,
        remainder \in Remainders : Mod(q, field, divisor, remainder)
  \/ \E q \in Ids, field \in Fields, value \in Sizes : Size(q, field, value)
  \/ \E q \in Ids, field \in Fields, regExp \in Patterns, options \in OptionSets :
       Matches(q, field, regExp, options)
  \/ \E q \in Ids, field \in Fields, coord \in Coords, maxDistance \in Distances :
       Near(q, field, coord, maxDistance)
  \/ \E q \in Ids, field \in Fields, bottomLeftCoord \in Corners,
        upperRightCoord \in Corners :
       WithinBox(q, field, bottomLeftCoord, upperRightCoord)
  \/ \E q \in Ids, field \in Fields, coords \in Polygons :
       WithinPolygon(q, field, coords)
  \/ \E q \in Ids, args \in CheckedArgLists : And(q, args)
  \/ \E q \in Ids, args \in CheckedArgLists : Nor(q, args)
  \/ \E q \in Ids, args \in CheckedArgLists : Or(q, args)

InitOps == InitWith(MaxOpsCalls)

SpecOps == InitOps /\ [][NextOps]_vars

\* ------------------------------------------------ the state specification
\* fields, sort, limit and skip of one `new Query()`, and toQueryString
MaxStateCalls == 3

LimitValues == {Num(1), Num(0), Num(-1), Str("abc"), JSNull}
SkipValues == {Num(1), Num(0), Str("-1"), Str("abc"), Undefined}

NextState ==
  \/ \E q \in Ids, field \in Fields, value \in Values : EqualTo(q, field, value)
  \/ \E q \in Ids, args \in ArgLists : And(q, args)
  \/ \E q \in Ids, field \in Fields : Ascending(q, field)
  \/ \E q \in Ids, field \in Fields : Descending(q, field)
  \/ \E q \in Ids, v \in FieldsInputs : SetFields(q, v)
  \/ \E q \in Ids, kind \in {"object", "null", "number"} : SetSort(q, kind)
  \/ \E q \in Ids, v \in LimitValues : SetLimit(q, v)
  \/ \E q \in Ids, v \in SkipValues : SetSkip(q, v)
  \/ \E q \in Ids : ToQueryString(q)

InitState == InitWith(MaxStateCalls)

SpecState == InitState /\ [][NextState]_vars

\* ------------------------------------------------------------------ process
\* A record is a mapping from field names to numbers.  The argument of
\* process is an array of records, a plain object, or a scalar value x.
DArr(items) == [t |-> "array", v |-> items, x |-> Undefined]
DObj == [t |-> "object", v |-> <<>>, x |-> Undefined]
DVal(x) == [t |-> x.t, v |-> <<>>, x |-> x]

\* truthiness of the argument: an array and an object are truthy
truthyData(data) == data.t \in {"array", "object"} \/ Truthy(data.x)

\* the outcome of a process call: the error raised and its message, or the
\* value returned (for an array the returned records, as positions in the
\* argument), and the records of the argument as the call leaves them
Outcome(w, err, message, result, items) ==
  [w |-> w, ret |-> Null, err |-> err, message |-> message, result |-> result,
   items |-> items]

\* the operators of sift the model knows, on numbers
siftOperators == {"$eq", "$ne", "$gt", "$gte", "$lt", "$lte"}

\* sift: one operator of a field entry, against a record
siftOperator(operator, operand, record, field) ==
  LET has == field \in DOMAIN record
  IN CASE operator = "$eq" -> has /\ record[field] = operand
       [] operator = "$ne" -> ~(has /\ record[field] = operand)
       [] operator = "$gt" -> has /\ record[field] > operand
       [] operator = "$gte" -> has /\ record[field] >= operand
       [] operator = "$lt" -> has /\ record[field] < operand
       [] OTHER -> has /\ record[field] <= operand

\* sift raises an Error for an operator it does not know, and the recursion
\* over a circular filter ends in a RangeError; `fuel` bounds the depth
RECURSIVE siftError(_, _, _)
siftError(w, a, fuel) ==
  LET flt == w.heap[a]
      below == IF fuel = 0 THEN {}
               ELSE UNION {{siftError(w, flt.j[o][i], fuel - 1)
                            : i \in 1..Len(flt.j[o])} : o \in DOMAIN flt.j}
  IN IF fuel = 0 /\ DOMAIN flt.j # {}
       THEN "RangeError"
       ELSE IF \E field \in DOMAIN flt.f :
                 isObject(flt.f[field]) /\ ~(DOMAIN flt.f[field] \subseteq siftOperators)
              THEN "Error"
              ELSE IF "RangeError" \in below THEN "RangeError"
              ELSE IF "Error" \in below THEN "Error"
              ELSE ""

\* sift(filter, [record]): does the record satisfy the filter object a
RECURSIVE siftMatches(_, _, _)
siftMatches(w, a, record) ==
  LET flt == w.heap[a]
  IN /\ \A field \in DOMAIN flt.f :
          IF isObject(flt.f[field])
            THEN \A operator \in DOMAIN flt.f[field] :
                   siftOperator(operator, flt.f[field][operator], record, field)
            ELSE field \in DOMAIN record /\ record[field] = flt.f[field][""]
     /\ "$and" \in DOMAIN flt.j =>
          \A i \in 1..Len(flt.j["$and"]) : siftMatches(w, flt.j["$and"][i], record)
     /\ "$or" \in DOMAIN flt.j =>
          \E i \in 1..Len(flt.j["$or"]) : siftMatches(w, flt.j["$or"][i], record)
     /\ "$nor" \in DOMAIN flt.j =>
          ~\E i \in 1..Len(flt.j["$nor"]) : siftMatches(w, flt.j["$nor"][i], record)

\* sift(json.filter, data): the positions of the matching records, in order
sift(w, a, items) ==
  SelectSeq([i \in 1..Len(items) |-> i], LAMBDA i : siftMatches(w, a, items[i]))

\* the forEach(keys, ...) of the projection: the keys not in fields go
removeFields(item, fields) ==
  [k \in {k \in DOMAIN item : \E i \in 1..Len(fields) : fields[i] = k} |-> item[k]]

\* nested(item, field) of ./utils: the value under the field, undefined when
\* the record has no such field
nested(item, field) == IF field \in DOMAIN item THEN Num(item[field]) ELSE Undefined

\* the callback of forEach(fields, ...) in the comparator, query.js:773-793:
\* what it returns for one sort field
compareField(entry, a, b) ==
  LET aField == nested(a, entry.field)
      bField == nested(b, entry.field)
  IN IF Truthy(aField) /\ ~Truthy(bField) THEN -1
     ELSE IF Truthy(bField) /\ ~Truthy(aField) THEN 1
     ELSE IF aField # bField
            THEN (IF aField.n < bField.n THEN -1 ELSE 1) * entry.dir
            ELSE 0

\* the comparator handed to data.sort, query.js:769-799: what the callback
\* returns for a field goes to forEach, which drops it, and the comparator
\* ends with `return 0`
comparator(sort, a, b) ==
  LET perField == [i \in 1..Len(sort) |-> compareField(sort[i], a, b)]
  IN 0

\* Array.prototype.sort with the comparator, stable: each element goes
\* before the first element the comparator puts after it
RECURSIVE arraySort(_, _, _, _)
arraySort(sorted, rest, sort, items) ==
  IF rest = <<>>
    THEN sorted
    ELSE LET x == Head(rest)
             later == {i \in 1..Len(sorted) :
                         comparator(sort, items[sorted[i]], items[x]) > 0}
             at == IF later = {} THEN Len(sorted) + 1
                   ELSE CHOOSE i \in later : \A k \in later : i <= k
         IN arraySort(SubSeq(sorted, 1, at - 1) \o <<x>>
                        \o SubSeq(sorted, at, Len(sorted)),
                      Tail(rest), sort, items)

\* ToInteger of a slice bound: NaN and null count as 0
toInteger(v) == IF v.t = "number" THEN v.n ELSE 0

\* json.skip + json.limit
plus(a, b) == IF a.t = "number" /\ b.t = "number" THEN Num(a.n + b.n) ELSE NaN

\* Array.prototype.slice(start, end): a negative bound counts from the end
slice(seq, start, end) ==
  LET len == Len(seq)
      from == IF start < 0 THEN (IF len + start < 0 THEN 0 ELSE len + start)
              ELSE (IF start > len THEN len ELSE start)
      to == IF end < 0 THEN (IF len + end < 0 THEN 0 ELSE len + end)
            ELSE (IF end > len THEN len ELSE end)
  IN SubSeq(seq, from + 1, to)

\* the message of the QueryError for a query that cannot run locally,
\* query.js:735-740
unsupportedMessage ==
  "This query is not able to run locally. The following filters are not supported"
  \o " locally:" \o " " \o unsupportedFilters[1]

\* mutant of process: a falsy argument is returned before the query is
\* looked at
process_dataFirst(w, q, data) ==
  IF ~truthyData(data)
    THEN Outcome(w, "", "", data, data.v)
    ELSE IF isSupportedOffline(w, q) = FALSE
           THEN Outcome(w, "QueryError", unsupportedMessage, DVal(Undefined), data.v)
           ELSE Outcome(w, "QueryError", "data argument must be of type: Array.",
                        DVal(Undefined), data.v)

\* mutant of process: the projection runs on the records of the page only
process_projectsPage(w, q, data) ==
  IF isSupportedOffline(w, q) = FALSE \/ ~truthyData(data) \/ ~isArray(data)
    THEN Outcome(w, "QueryError", "", DVal(Undefined), data.v)
    ELSE LET json == toJSON(w, q)
             hits == sift(w, json.filter, data.v)
             page == IF Truthy(json.limit)
                       THEN slice(hits, toInteger(json.skip),
                                  toInteger(plus(json.skip, json.limit)))
                       ELSE slice(hits, toInteger(json.skip), Len(hits))
             items == [i \in 1..Len(data.v) |->
                         IF Len(json.fields.v) > 0 /\ \E k \in 1..Len(page) : page[k] = i
                           THEN removeFields(data.v[i], json.fields.v)
                           ELSE data.v[i]]
         IN Outcome(w, "", "", DArr(page), items)

\* mutant of process: the page taken is remembered as the new skip
process_advances(w, q, data) ==
  IF isSupportedOffline(w, q) = FALSE \/ ~truthyData(data) \/ ~isArray(data)
    THEN Outcome(w, "QueryError", "", DVal(Undefined), data.v)
    ELSE LET json == toJSON(w, q)
             hits == sift(w, json.filter, data.v)
             page == IF Truthy(json.limit)
                       THEN slice(hits, toInteger(json.skip),
                                  toInteger(plus(json.skip, json.limit)))
                       ELSE slice(hits, toInteger(json.skip), Len(hits))
         IN Outcome([w EXCEPT !.queries[q]._skip = plus(json.skip, Num(Len(page)))],
                    "", "", DArr(page), data.v)

\* mutant of process: the page is cut from the records in reverse order
process_reverses(w, q, data) ==
  IF isSupportedOffline(w, q) = FALSE \/ ~truthyData(data) \/ ~isArray(data)
    THEN Outcome(w, "QueryError", "", DVal(Undefined), data.v)
    ELSE LET json == toJSON(w, q)
             hits == sift(w, json.filter, data.v)
             back == [i \in 1..Len(hits) |-> hits[Len(hits) + 1 - i]]
             page == IF Truthy(json.limit)
                       THEN slice(back, toInteger(json.skip),
                                  toInteger(plus(json.skip, json.limit)))
                       ELSE slice(back, toInteger(json.skip), Len(back))
         IN Outcome(w, "", "", DArr(page), data.v)

\* process(data), query.js:733-810
process(w, q, data) ==
  IF isSupportedOffline(w, q) = FALSE
    THEN Outcome(w, "QueryError", unsupportedMessage, DVal(Undefined), data.v)
    ELSE IF truthyData(data)
           THEN IF ~isArray(data)
                  THEN Outcome(w, "QueryError",
                               "data argument must be of type: Array.",
                               DVal(Undefined), data.v)
                  ELSE One({
                    IF siftError(w, json.filter, Len(w.heap)) # ""
                      THEN Outcome(w, siftError(w, json.filter, Len(w.heap)), "",
                                   DVal(Undefined), data.v)
                      ELSE One({One({One({
                        Outcome(w, "", "",
                                DArr(IF Truthy(json.limit)
                                       THEN slice(sorted, toInteger(json.skip),
                                                  toInteger(plus(json.skip,
                                                                 json.limit)))
                                       ELSE slice(sorted, toInteger(json.skip),
                                                  Len(sorted))),
                                items)
                        : sorted \in {arraySort(<<>>, hits,
                                                w.sorts[json.sort.a], items)}})
                        : items \in {[i \in 1..Len(data.v) |->
                                        IF Len(json.fields.v) > 0
                                             /\ \E k \in 1..Len(hits) : hits[k] = i
                                          THEN removeFields(data.v[i], json.fields.v)
                                          ELSE data.v[i]]}})
                        : hits \in {sift(w, json.filter, data.v)}})
                    : json \in {toJSON(w, q)}})
           ELSE Outcome(w, "", "", data, data.v)

\* the log keeps the argument, the error and its message, the value
\* returned and the records of the argument after the call
Process(q, data) ==
  LET r == process(World, q, data)
  IN Apply(r, [op |-> "process", self |-> q, args |-> <<data>>, field |-> "",
               value |-> Undefined, ret |-> Null, err |-> r.err,
               plain |-> NoOptions, message |-> r.message,
               result |-> r.result, items |-> r.items])

\* ---------------------------------------------- the process specification
\* process on a Query constructed from an options object, after up to
\* MaxProcessCalls calls
MaxProcessCalls == 3

ProcessFilters ==
  {EmptyFilter, [f |-> Put(EmptyMap, "a", Put(EmptyMap, "$gt", 1)), j |-> EmptyMap]}

ProcessSorts == {EmptySort, <<[field |-> "a", dir |-> -1]>>}

\* the arguments of process: two arrays of records, and values that are no
\* array
ProcessData ==
  {DArr(<<[a |-> 1], [a |-> 2], [a |-> 3]>>),
   DArr(<<[a |-> 1, b |-> 2], [b |-> 1], [a |-> 3, b |-> 1]>>),
   DArr(<<>>), DObj, DVal(JSNull), DVal(Undefined), DVal(Num(0)),
   DVal(Bool(FALSE)), DVal(Str("")), DVal(Str("abc"))}

InitProcess ==
  \E flt \in ProcessFilters, fs \in {<<>>, <<"a">>}, srt \in ProcessSorts,
     limit \in {JSNull, Num(1)}, skip \in {Num(0), Num(1)} :
    LET w0 == [queries |-> <<>>, heap |-> <<flt>>, sorts |-> <<srt>>]
        r == constructor(w0, Options(OptionKeys, FArr(fs), 1, SObj(1), limit, skip))
    IN /\ queries = r.w.queries
       /\ heap = r.w.heap
       /\ sorts = r.w.sorts
       /\ log = <<>>
       /\ left = MaxProcessCalls

NextProcess ==
  \/ \E q \in Ids, field \in Fields, value \in Values : EqualTo(q, field, value)
  \/ \E q \in Ids, field \in Fields :
       Near(q, field, Arr(<<Num(1), Num(2)>>), Undefined)
  \/ \E q \in Ids : And(q, <<>>)
  \/ \E q \in Ids, v \in {FArr(<<"a">>), FNull} : SetFields(q, v)
  \/ \E q \in Ids, v \in {Num(0), Num(2)} : SetLimit(q, v)
  \/ \E q \in Ids, data \in ProcessData : Process(q, data)

SpecProcess == InitProcess /\ [][NextProcess]_vars

\* ================================================================= claims
\* ---------------------------------------------------- shared vocabulary
JoinCalls == {"and", "nor", "or"}

OperatorOf(op) ==
  CASE op = "and" -> "$and" [] op = "nor" -> "$nor" [] OTHER -> "$or"

\* the Criteria a scope-child was created from (the owner join recorded)
Owner(q) == queries[q].parent

RECURSIVE Root(_)
Root(q) == IF Owner(q) = Null THEN q ELSE Root(Owner(q))

FilterOf(q) == queries[q]._filter

Range(seq) == {seq[i] : i \in 1..Len(seq)}

\* the operands of the `operator` entry of filter object a
Operands(a, operator) ==
  IF operator \in DOMAIN heap[a].j THEN Range(heap[a].j[operator]) ELSE {}

RECURSIVE Closure(_, _)
Closure(S, n) ==
  IF n = 0
    THEN S
    ELSE Closure(S \cup UNION {UNION {Operands(a, o) : o \in JoinOps} : a \in S},
                 n - 1)

\* the filter objects nested inside the `operator` node of a
Inside(a, operator) == Closure(Operands(a, operator), Len(heap))

\* a successful call is the step just taken
Took(ops) == log' # log /\ last'.op \in ops /\ last'.err = ""

\* C1: whatever the order of the and / nor / or calls, no $or node is nested
\* inside a $nor or $and node and no $nor node is nested inside a $and node.
C1_Precedence ==
  \A a \in DOMAIN heap :
    /\ \A b \in Inside(a, "$and") : DOMAIN heap[b].j \cap {"$or", "$nor"} = {}
    /\ \A b \in Inside(a, "$nor") : "$or" \notin DOMAIN heap[b].j

\* the run is the chain q.equalTo('a', 1).and(q2).or(q3) on the empty
\* Criteria the run began with
C2_IsChain ==
  /\ Len(log) = 3
  /\ log[1].op = "equalTo" /\ log[1].self = 1
  /\ log[1].field = "a" /\ log[1].value = Num(1)
  /\ log[2].op = "and" /\ log[2].self = log[1].ret /\ Len(log[2].args) = 1
  /\ log[3].op = "or" /\ log[3].self = log[2].ret /\ Len(log[3].args) = 1

\* C2: from an empty Criteria q, q.equalTo('a', 1).and(q2).or(q3) leaves
\* q.filter = {$or: [{$and: [{a: {$eq: 1}}, q2.filter]}, q3.filter]}.
C2_Chain ==
  C2_IsChain =>
    LET A == FilterOf(1)
        q2 == log[2].args[1].id
        q3 == log[3].args[1].id
    IN /\ Keys(heap[A]) = {"$or"}
       /\ Len(heap[A].j["$or"]) = 2
       /\ heap[A].j["$or"][2] = FilterOf(q3)
       /\ LET X == heap[A].j["$or"][1]
          IN /\ Keys(heap[X]) = {"$and"}
             /\ Len(heap[X].j["$and"]) = 2
             /\ heap[X].j["$and"][2] = FilterOf(q2)
             /\ heap[heap[X].j["$and"][1]] =
                  [f |-> Put(EmptyMap, "a", Put(EmptyMap, "$eq", 1)),
                   j |-> EmptyMap]

C2_Witness ==
  /\ C2_IsChain
  /\ Cardinality({1, log[2].args[1].id, log[3].args[1].id}) = 3
  /\ Keys(heap[FilterOf(log[2].args[1].id)]) = {"b"}

\* C3: or(...) on a scope-child is applied to the outermost owner, whose
\* filter then has $or as its only key, with its whole former filter as
\* first operand; the child's own filter gains no $or key.
C3_OrRedirect ==
  [][(Took({"or"}) /\ Owner(last'.self) # Null) =>
       LET c == last'.self
           A == FilterOf(Root(c))
       IN /\ Keys(heap'[A]) = {"$or"}
          /\ heap'[heap'[A].j["$or"][1]] = heap[A]
          /\ "$or" \in DOMAIN heap'[FilterOf(c)].j
               => "$or" \in DOMAIN heap[FilterOf(c)].j]_vars

\* C4: nor(...) on a scope-child whose owner's filter has a top-level $and is
\* applied to the owner, whose filter then has $nor as its only key with the
\* former $and tree as first operand; without a top-level $and on the owner
\* the $nor is applied to the child.
C4_NorRedirect ==
  [][(Took({"nor"}) /\ Owner(last'.self) # Null) =>
       LET c == last'.self
           A == FilterOf(Owner(c))
           T == IF "$and" \in DOMAIN heap[A].j THEN A ELSE FilterOf(c)
       IN /\ Keys(heap'[T]) = {"$nor"}
          /\ heap'[heap'[T].j["$nor"][1]] = heap[T]]_vars

\* nor / or hand the call to the parent (query.js:392, 411)
Redirected(op, s) ==
  LET p == queries[s]._parent
  IN \/ op = "or" /\ p # Null
     \/ op = "nor" /\ p # Null /\ "$and" \in DOMAIN heap[queries[p]._filter].j

\* the filters the arguments of the call contribute, the new scope-child's
\* for a call without arguments
C5_SubFilters(call) ==
  IF call.args = <<>>
    THEN <<queries'[call.ret]._filter>>
    ELSE [i \in 1..Len(call.args) |-> FilterOf(call.args[i].id)]

C6_Open ==
  {i \in 1..Len(log) :
     /\ log[i].op \in JoinCalls /\ log[i].err = "" /\ log[i].args = <<>>
     /\ \A k \in (i + 1)..Len(log) :
          ~(log[k].op \in JoinCalls /\ log[k].err = "" /\ log[k].self = log[i].self)}

\* the child of every open scope is, by reference, the second and last
\* operand of its owner's entry
C6_Visible ==
  \A i \in C6_Open :
    LET entry == heap[FilterOf(log[i].self)].j
        operator == OperatorOf(log[i].op)
    IN /\ operator \in DOMAIN entry
       /\ Len(entry[operator]) = 2
       /\ entry[operator][2] = FilterOf(log[i].ret)

\* C6: a join with sub-criteria returns the Criteria it joined onto; a join
\* without arguments returns a new, empty Criteria that is the sole right-hand
\* operand, and what is added through it afterwards shows as the owner's
\* second operand: owner.or().equalTo('b', 2) leaves
\* owner.filter = {$or: [<previous filter>, {b: {$eq: 2}}]}.
C6_ScopeOpen ==
  [][/\ Took(JoinCalls) /\ last'.args # <<>> => last'.ret = last'.self
     /\ Took(JoinCalls) /\ last'.args = <<>> =>
          /\ last'.ret \notin DOMAIN queries
          /\ heap'[queries'[last'.ret]._filter] = EmptyFilter
          /\ queries'[last'.ret]._filter \notin DOMAIN heap
     /\ log' # log => C6_Visible'
     /\ (/\ last.op = "or" /\ last.err = "" /\ last.args = <<>>
         /\ Took({"equalTo"}) /\ last'.self = last.ret) =>
          LET A == FilterOf(last.self)
              C == FilterOf(last.ret)
          IN /\ heap'[A] = heap[A]
             /\ heap'[Head(heap[A].j["$or"])] = heap[Head(heap[A].j["$or"])]
             /\ heap'[A].j["$or"] = <<Head(heap[A].j["$or"]), C>>
             /\ heap'[C] =
                  [f |-> Put(EmptyMap, last'.field,
                             Put(EmptyMap, "$eq", last'.value.n)),
                   j |-> EmptyMap]]_vars

C6_Witness ==
  /\ Len(log) = 3
  /\ log[1].op = "or" /\ log[1].args = <<>> /\ log[1].err = ""
  /\ log[2].op = "equalTo" /\ log[2].self = log[1].ret
  /\ log[2].field = "b" /\ log[2].value = Num(2)
  /\ log[3].op = "and" /\ log[3].self = log[1].ret /\ Len(log[3].args) = 1
  /\ heap[Head(heap[FilterOf(log[1].self)].j["$or"])] # EmptyFilter

\* the scope reference the class declares and its methods read
\* (query.js:79-85)
ScopeRef(q) == queries[q]._parent

\* the state a Query holds itself
Own(q) ==
  [fields |-> queries[q]._fields, sort |-> sorts[queries[q]._sort],
   limit |-> queries[q]._limit, skip |-> queries[q]._skip]

Mutators == {"ascending", "descending", "fields", "sort", "limit", "skip"}

\* the state `own` of a Query shows the mutation `call`
C7_Reflects(call, own) ==
  CASE call.op = "ascending" ->
         [field |-> call.field, dir |-> 1] \in Range(own.sort)
    [] call.op = "descending" ->
         [field |-> call.field, dir |-> -1] \in Range(own.sort)
    [] call.op = "limit" ->
         own.limit =
           IF isString(call.value) THEN parseFloat(call.value.s) ELSE call.value
    [] call.op = "skip" ->
         own.skip =
           IF isString(call.value) THEN parseFloat(call.value.s)
           ELSE IF call.value = Undefined THEN Num(0) ELSE call.value
    [] call.op = "fields" ->
         own.fields = IF call.field = "array" THEN <<"a">> ELSE <<>>
    [] OTHER ->
         own.sort =
           IF call.field = "object" THEN <<[field |-> "b", dir |-> -1]>> ELSE <<>>

\* C7: a sort / limit / skip / fields mutation on a scope-child changes the
\* authoritative owner, whose toPlainObject() then reflects it, and leaves the
\* child with no such state of its own.
C7_Delegation ==
  [][\A c \in Ids :
       (Took(Mutators) /\ c = last'.self /\ Owner(c) # Null) =>
         /\ Own(c)' = Own(c)
         /\ \A r \in Ids : r = Root(c) => C7_Reflects(last', Own(r)')]_vars

\* C8: toPlainObject() on a scope-child returns the snapshot of the
\* authoritative root of its scope chain.
C8_ToPlainObject ==
  (last.op = "toPlainObject" /\ Owner(last.self) # Null) =>
    last.plain = toPlainObject(World, Root(last.self))

\* the Query instances a join without arguments created, with their creator
C9_Children ==
  {<<log[i].ret, log[i].self>> : i \in
     {k \in 1..Len(log) :
        log[k].op \in JoinCalls /\ log[k].err = "" /\ log[k].args = <<>>}}

\* C9: a Criteria created by a join without arguments has a scope reference to
\* the Criteria it was created from and holds no state of its own; only the
\* end of the chain has no scope reference.
C9_OneAuthoritative ==
  \A pair \in C9_Children :
    /\ ScopeRef(pair[1]) = pair[2]
    /\ Own(pair[1]) = [fields |-> <<>>, sort |-> <<>>, limit |-> JSNull,
                       skip |-> Num(0)]

\* Query b has the fields, filter, sort, skip and limit of Query a
C10_Same(w, b, a) ==
  /\ w.queries[b]._fields = w.queries[a]._fields
  /\ w.queries[b]._filter = w.queries[a]._filter
  /\ w.heap[w.queries[b]._filter] = w.heap[w.queries[a]._filter]
  /\ w.sorts[w.queries[b]._sort] = w.sorts[w.queries[a]._sort]
  /\ w.queries[b]._skip = w.queries[a]._skip
  /\ w.queries[b]._limit = w.queries[a]._limit

\* C10: for every Criteria q, new Criteria(q.toPlainObject()) has fields,
\* filter, sort, skip and limit equal to those of q.
C10_RoundTrip ==
  /\ \A q \in Ids :
       LET r == constructor(World, toPlainObject(World, q))
       IN r.err = "" /\ C10_Same(r.w, r.ret, q)
  /\ last.op = "construct" =>
       last.err = "" /\ C10_Same(World, last.ret, last.self)

C10_Witness ==
  /\ last.op = "construct" /\ last.err = ""
  /\ Own(last.self).limit \notin {JSNull, Num(1)}
  /\ Own(last.self).sort # <<>>
  /\ Len(queries) = 2

\* ------------------------------------------------------------------- C11
C11_Keys(q) ==
  (IF Keys(heap[FilterOf(q)]) # {} THEN {"query"} ELSE {})
  \cup (IF queries[q]._fields # <<>> THEN {"fields"} ELSE {})
  \cup (IF Truthy(queries[q]._limit) THEN {"limit"} ELSE {})
  \cup (IF queries[q]._skip # Num(0) THEN {"skip"} ELSE {})
  \cup (IF sorts[queries[q]._sort] # <<>> THEN {"sort"} ELSE {})

\* C11: the mapping toQueryString() returns has the key `query` exactly
\* when the filter is non-empty, `fields` exactly when fields is non-empty
\* (its value the comma-joined names), `limit` exactly when limit is truthy,
\* `skip` exactly when skip is not zero, `sort` exactly when sort is
\* non-empty, no other key, and every value is a string.
C11_QueryString ==
  last.op = "toQueryString" /\ last.err = "" =>
    LET qs == toQueryString(World, last.self).ret
    IN /\ DOMAIN qs = C11_Keys(last.self)
       /\ \A k \in DOMAIN qs : isString(qs[k])
       /\ "fields" \in DOMAIN qs =>
            qs["fields"] = Str(joinNames(queries[last.self]._fields, 1))

\* ------------------------------------------------------------------- C12
\* C12: addFilter(field, operator, value) sets filter[field][operator] to
\* value, creating the field's operator mapping when there is none, keeps
\* the field's other operators and every other key of the filter, and
\* changes no other filter object; a repeated call with the same field and
\* operator so replaces that operator's value only.
C12_AddFilter ==
  [][log' # log /\ last'.op = "addFilter" /\ last'.err = "" =>
       LET a == FilterOf(last'.self)
           field == last'.field
           operator == last'.args[1]
           old == IF field \in DOMAIN heap[a].f /\ isObject(heap[a].f[field])
                    THEN heap[a].f[field] ELSE EmptyMap
           new == heap'[a].f[field]
       IN /\ queries' = queries
          /\ DOMAIN heap'[a].f = DOMAIN heap[a].f \cup {field}
          /\ DOMAIN new = DOMAIN old \cup {operator}
          /\ new[operator] = last'.value.n
          /\ \A o \in DOMAIN old \ {operator} : new[o] = old[o]
          /\ \A g \in DOMAIN heap[a].f \ {field} : heap'[a].f[g] = heap[a].f[g]
          /\ heap'[a].j = heap[a].j
          /\ \A b \in DOMAIN heap \ {a} : heap'[b] = heap[b]]_vars

\* addFilter('a', '$gt', 1), addFilter('a', '$ne', v), addFilter('a', '$gt', 2)
C12_Witness ==
  /\ Len(log) = 3
  /\ \A i \in 1..3 : log[i].op = "addFilter" /\ log[i].self = 1 /\ log[i].field = "a"
  /\ log[1].args = <<"$gt">> /\ log[1].value = Num(1)
  /\ log[2].args = <<"$ne">>
  /\ log[3].args = <<"$gt">> /\ log[3].value = Num(2)
  /\ "a" \in DOMAIN heap[FilterOf(1)].f
  /\ heap[FilterOf(1)].f["a"] =
       Put(Put(EmptyMap, "$gt", 2), "$ne", log[2].value.n)

\* ------------------------------------------------------------------- C13
\* C13: equalTo(field, value) discards the filters the field had: after the
\* call filter[field] is exactly {$eq: value}.
C13_EqualToDiscards ==
  [][Took({"equalTo"}) =>
       heap'[FilterOf(last'.self)].f[last'.field]
         = Put(EmptyMap, "$eq", last'.value.n)]_vars

\* ------------------------------------------------------------------- C14
\* C14 as stated: in every reachable state, whatever options the Query was
\* constructed from, every field entry of its filter is an operator mapping.
C14_OperatorMapping ==
  \A q \in Ids : \A field \in DOMAIN heap[FilterOf(q)].f :
    isObject(heap[FilterOf(q)].f[field])

\* C14 amended: no fluent operation stores a bare value under a field: a
\* field entry that is a bare value after a call was the same bare value
\* before the call (it came with the filter the constructor was given), and
\* the entry a call writes is an operator mapping.
C14_FluentMapping ==
  [][/\ \A q \in Ids : \A field \in DOMAIN heap'[queries'[q]._filter].f :
          ~isObject(heap'[queries'[q]._filter].f[field]) =>
            /\ field \in DOMAIN heap[FilterOf(q)].f
            /\ heap[FilterOf(q)].f[field] = heap'[queries'[q]._filter].f[field]
     /\ \A q \in DOMAIN queries' \ Ids : DOMAIN heap'[queries'[q]._filter].f = {}
     /\ Took({"addFilter", "equalTo", "near"}) =>
          isObject(heap'[FilterOf(last'.self)].f[last'.field])]_vars

\* new Query({filter: {a: 1}}).equalTo('b', v): `a` is still the bare 1
C14_Witness ==
  /\ last.op = "equalTo" /\ last.field = "b" /\ last.self = 1
  /\ DOMAIN heap[FilterOf(1)].f = {"a", "b"}
  /\ heap[FilterOf(1)].f["a"] = Bare(1)
  /\ heap[FilterOf(1)].f["b"] = Put(EmptyMap, "$eq", last.value.n)

\* ------------------------------------------------------------------- C15
C15_Holds(qs) ==
  \A q \in DOMAIN qs :
    /\ qs[q]._limit.t \in {"null", "undefined", "number"}
    /\ qs[q]._skip.t = "number" /\ qs[q]._skip.n >= 0

\* C15: limit is always null / absent or a finite number and skip always a
\* finite number that is not negative; an assignment that would break this
\* (such as 'abc' or '-1') raises a QueryError and changes nothing.
C15_Finite ==
  [][/\ C15_Holds(queries')
     /\ log' # log /\ last'.op \in {"limit", "skip"} /\ last'.err # "" =>
          last'.err = "QueryError" /\ queries' = queries]_vars

\* ------------------------------------------------------------------- C16
\* C16: on a Criteria that is no scope-child, ascending(field) sets
\* sort[field] to 1 and descending(field) to -1; when the field is in sort
\* already only its direction changes, the order of the sort fields and the
\* other directions stay, and a new field goes last.
C16_SortOrder ==
  [][Took({"ascending", "descending"}) /\ Owner(last'.self) = Null =>
       LET a == queries[last'.self]._sort
           old == sorts[a]
           new == sorts'[a]
           field == last'.field
           direction == IF last'.op = "ascending" THEN 1 ELSE -1
       IN IF \E i \in 1..Len(old) : old[i].field = field
            THEN /\ Len(new) = Len(old)
                 /\ \A i \in 1..Len(old) :
                      /\ new[i].field = old[i].field
                      /\ new[i].dir = IF old[i].field = field
                                        THEN direction ELSE old[i].dir
            ELSE new = Append(old, [field |-> field, dir |-> direction])]_vars

\* ascending('a'), ascending('b'), descending('a'): `a` is still first
C16_Witness ==
  /\ Len(log) = 3
  /\ \A i \in 1..3 : log[i].self = 1
  /\ log[1].op = "ascending" /\ log[1].field = "a"
  /\ log[2].op = "ascending" /\ log[2].field = "b"
  /\ log[3].op = "descending" /\ log[3].field = "a"
  /\ sorts[queries[1]._sort]
       = <<[field |-> "a", dir |-> -1], [field |-> "b", dir |-> 1]>>

\* ------------------------------------------------------------------- C17
\* C17: a call that fails with a QueryError (a comparison with a value that
\* is no number or string, mod / size with a non-number, matches with an
\* unanchored pattern or ignoreCase, near / withinBox / withinPolygon with
\* bad coordinates, and / nor / or with an argument that is no object, also
\* after valid arguments) leaves the filter of the Criteria as it was.
C17_FailFast ==
  [][log' # log /\ last'.err = "QueryError" =>
       /\ queries'[last'.self]._filter = queries[last'.self]._filter
       /\ \A a \in DOMAIN heap : heap'[a] = heap[a]]_vars

\* equalTo(...) then or(q, 5): the join fails on its second argument
C17_Witness ==
  /\ Len(log) = 2
  /\ log[1].op = "equalTo" /\ log[1].err = ""
  /\ last.op = "or" /\ last.err = "QueryError"
  /\ Len(last.args) = 2 /\ last.args[1].k = "object" /\ last.args[2] = BadArg
  /\ DOMAIN heap[FilterOf(last.self)].f = {log[1].field}

\* ------------------------------------------------------------------- C18
C18_Converted(v) == IF isString(v) THEN parseFloat(v.s) ELSE v

\* C18: mod(field, divisor, remainder) parses string inputs as numbers,
\* takes 0 for a missing remainder and stores $mod: [divisor, remainder];
\* when the divisor or the remainder is then no finite number it raises a
\* QueryError and stores nothing.
C18_Mod ==
  [][log' # log /\ last'.op = "mod" =>
       LET divisor == C18_Converted(last'.args[1])
           remainder == IF last'.args[2] = Undefined
                          THEN Num(0) ELSE C18_Converted(last'.args[2])
           a == FilterOf(last'.self)
       IN IF divisor.t = "number" /\ remainder.t = "number"
            THEN /\ last'.err = ""
                 /\ heap'[a].f[last'.field]["$mod"] = <<divisor, remainder>>
            ELSE last'.err = "QueryError" /\ heap' = heap]_vars

\* ------------------------------------------------------------------- C19
C19_RegExp(call) ==
  IF call.args[1].re THEN call.args[1] ELSE newRegExp(call.args[1].source)

C19_Anchored(source) == source # <<>> /\ Head(source) = "^"

C19_Plain(call) ==
  /\ C19_Anchored(C19_RegExp(call).source)
  /\ ~C19_RegExp(call).ignoreCase
  /\ ~Truthy(call.args[2].ignoreCase)

\* C19 as stated: matches fails for a pattern whose source does not start
\* with `^`; for an anchored pattern without case-insensitivity it succeeds
\* and stores the pattern without the anchor: /^foo/ gives $regex: 'foo'.
C19_Matches ==
  [][log' # log /\ last'.op = "matches" =>
       /\ ~C19_Anchored(C19_RegExp(last').source) => last'.err = "QueryError"
       /\ C19_Plain(last') =>
            /\ last'.err = ""
            /\ heap'[FilterOf(last'.self)].f[last'.field]["$regex"]
                 = Tail(C19_RegExp(last').source)]_vars

\* C19 amended: matches fails for a pattern whose source does not start
\* with `^`; for an anchored pattern without case-insensitivity it succeeds
\* and stores the source of the pattern, anchor included: /^foo/ gives
\* $regex: '^foo'.
C19_StoresSource ==
  [][log' # log /\ last'.op = "matches" =>
       /\ ~C19_Anchored(C19_RegExp(last').source) =>
            last'.err = "QueryError" /\ heap' = heap
       /\ C19_Plain(last') =>
            /\ last'.err = ""
            /\ heap'[FilterOf(last'.self)].f[last'.field]["$regex"]
                 = C19_RegExp(last').source]_vars

\* new Query().matches(field, /^foo/): {field: {$regex: '^foo'}}
C19_Witness ==
  /\ Len(log) = 1 /\ last.op = "matches" /\ last.err = ""
  /\ last.args[1] = RegExp(<<"^", "f", "o", "o">>, FALSE, FALSE)
  /\ last.args[2] = NoMatchOptions
  /\ heap[FilterOf(last.self)].f
       = Put(EmptyMap, last.field,
             Put(EmptyMap, "$regex", <<"^", "f", "o", "o">>))

\* ------------------------------------------------------------------- C20
C20_Carries(a) ==
  \E field \in DOMAIN heap[a].f :
    isObject(heap[a].f[field]) /\ "$nearSphere" \in DOMAIN heap[a].f[field]

\* C20: isSupportedOffline() returns false exactly when a top-level field
\* of the filter carries $nearSphere; a $nearSphere inside a $and / $or /
\* $nor sub-tree does not count.
C20_Offline ==
  last.op = "isSupportedOffline" =>
    (last.value = Bool(FALSE) <=> C20_Carries(FilterOf(last.self)))

\* a $nearSphere inside the $or of the filter, none at its top level, and
\* isSupportedOffline() returned true
C20_Witness ==
  /\ last.op = "isSupportedOffline" /\ last.value = Bool(TRUE)
  /\ \E a \in Inside(FilterOf(last.self), "$or") : C20_Carries(a)

\* ------------------------------------------------------------------- C21
\* the step is a process call
Processed == log' # log /\ last'.op = "process"

\* the step is a process call on an array that returned
ProcessedArray == Processed /\ last'.err = "" /\ isArray(last'.args[1])

\* C21: when isSupportedOffline() is false, process(data) fails with a
\* QueryError whose message names the unsupported operator, whatever data is;
\* it returns nothing and leaves the records and the Criteria as they were.
C21_Unsupported ==
  [][Processed /\ isSupportedOffline(World, last'.self) = FALSE =>
       /\ last'.err = "QueryError"
       /\ last'.message =
            "This query is not able to run locally. The following filters are not supported locally: $nearSphere"
       /\ last'.result = DVal(Undefined)
       /\ last'.items = last'.args[1].v
       /\ queries' = queries /\ heap' = heap /\ sorts' = sorts]_vars

\* near(...) then process(undefined): the call fails though no data came
C21_Witness ==
  /\ Len(log) = 2
  /\ log[1].op = "near" /\ log[1].err = ""
  /\ last.op = "process" /\ last.err = "QueryError"
  /\ last.args[1] = DVal(Undefined)
  /\ C20_Carries(FilterOf(last.self))

\* ------------------------------------------------------------------- C22
\* C22: on a Criteria that can run locally, process(data) fails with a type
\* error for every data that is no array (null, undefined, 0, false, '', a
\* string, a plain object) and never returns such a value.
C22_TypeError ==
  [][Processed /\ isSupportedOffline(World, last'.self)
       /\ ~isArray(last'.args[1]) =>
       /\ last'.err = "QueryError"
       /\ last'.result # last'.args[1]]_vars

\* ------------------------------------------------------------------- C23
\* the comparator chain over the sort's fields in insertion order: the first
\* field that tells the two records apart decides
RECURSIVE C23_Chain(_, _, _)
C23_Chain(sort, a, b) ==
  IF sort = <<>> THEN 0
  ELSE IF compareField(Head(sort), a, b) # 0
         THEN compareField(Head(sort), a, b)
         ELSE C23_Chain(Tail(sort), a, b)

\* C23: when sort is not empty, the records process returns are ordered by
\* the comparator chain over the sort's fields: no record comes before a
\* record the chain puts ahead of it.
C23_Ordered ==
  [][ProcessedArray /\ sorts[queries[last'.self]._sort] # <<>> =>
       \A i, k \in 1..Len(last'.result.v) :
         i < k => C23_Chain(sorts[queries[last'.self]._sort],
                            last'.items[last'.result.v[i]],
                            last'.items[last'.result.v[k]]) <= 0]_vars

\* ------------------------------------------------------------------- C24
\* the positions of the records of data that satisfy the filter of q
C24_Matching(q, data) ==
  SelectSeq([i \in 1..Len(data.v) |-> i],
            LAMBDA i : siftMatches(World, FilterOf(q), data.v[i]))

\* positions [from, to) of a sequence, counted from 0
C24_Cut(seq, from, to) ==
  SubSeq(seq, from + 1, IF to > Len(seq) THEN Len(seq) ELSE to)

\* skip is a number that is not negative
C24_SkipOk(q) == queries[q]._skip.t = "number" /\ queries[q]._skip.n >= 0

C25_ReadsOnly ==
  [][Processed =>
       /\ queries' = queries /\ heap' = heap /\ sorts' = sorts
       /\ ProcessedArray /\ C24_SkipOk(last'.self) =>
            last'.result.v =
              LET q == last'.self
                  hits == C24_Matching(q, last'.args[1])
              IN IF Truthy(queries[q]._limit)
                   THEN C24_Cut(hits, queries[q]._skip.n,
                                queries[q]._skip.n + queries[q]._limit.n)
                   ELSE C24_Cut(hits, queries[q]._skip.n, Len(hits))]_vars

\* process(data), a change of the filter or the limit, process(data) again:
\* the second call returns other records than the first
C25_Witness ==
  /\ Len(log) = 3
  /\ log[1].op = "process" /\ log[1].err = "" /\ isArray(log[1].args[1])
  /\ log[2].op \in {"equalTo", "limit"} /\ log[2].err = ""
  /\ log[3].op = "process" /\ log[3].err = ""
  /\ log[3].self = log[1].self /\ log[3].args = log[1].args
  /\ log[3].result # log[1].result

\* ------------------------------------------------------------------- C26
\* the record without the keys that are not in fields
C26_Only(record, fields) ==
  [k \in DOMAIN record \cap Range(fields) |-> record[k]]

\* C26: when fields is not empty, process removes from every record that
\* matches the filter each key that is not in fields, in place, also from
\* the matching records that skip and limit drop; a record that does not
\* match is left as it was, and with empty fields no record is changed.
C26_Projects ==
  [][ProcessedArray =>
       \A i \in 1..Len(last'.args[1].v) :
         last'.items[i] =
           IF queries[last'.self]._fields # <<>>
                /\ siftMatches(World, FilterOf(last'.self), last'.args[1].v[i])
             THEN C26_Only(last'.args[1].v[i], queries[last'.self]._fields)
             ELSE last'.args[1].v[i]]_vars

\* fields ['a'], filter {a: {$gt: 1}}, limit 1 on [{a:1,b:2},{b:1},{a:3,b:1}]:
\* only the third record matches, and it lost its key b
C26_Witness ==
  /\ last.op = "process" /\ last.err = ""
  /\ last.args[1] = DArr(<<[a |-> 1, b |-> 2], [b |-> 1], [a |-> 3, b |-> 1]>>)
  /\ queries[last.self]._fields = <<"a">>
  /\ queries[last.self]._skip = Num(1)
  /\ last.result.v = <<>>
  /\ last.items = <<[a |-> 1, b |-> 2], [b |-> 1], [a |-> 3]>>

\* ------------------------------------------------------------------- C27
\* near was applied to q with success earlier in the run
C27_NearApplied(q) ==
  \E i \in 1..Len(log) :
    log[i].op = "near" /\ log[i].self = q /\ log[i].err = ""

\* C27: once near(field, coord) was applied to a Criteria, no later fluent
\* operation makes process run the filter: isSupportedOffline() stays false
\* and process(records) keeps failing with the QueryError.
C27_StaysUnsupported ==
  [][Processed /\ isArray(last'.args[1]) /\ C27_NearApplied(last'.self) =>
       /\ isSupportedOffline(World, last'.self) = FALSE
       /\ last'.err = "QueryError"]_vars

\* ------------------------------------------------------------------- C28
\* the filter objects below filter object a
C28_Below(a) ==
  Closure(UNION {Operands(a, o) : o \in JoinOps}, Len(heap))

\* C28: after any fluent operations the filter is a finite tree: no filter
\* object is reachable from itself, also after q.and(q), so toQueryString()
\* always ends with a value.
C28_FiniteTree ==
  /\ \A a \in DOMAIN heap : a \notin C28_Below(a)
  /\ last.op = "toQueryString" => last.err = ""

\* ------------------------------------------------------------------- C29
\* the filter objects that make up the filter of q
C29_Tree(q) == {FilterOf(q)} \cup C28_Below(FilterOf(q))

\* C29: a join takes a snapshot of its sub-criteria and the constructor one
\* of the plain object it is given: a call on a Criteria that is no scoped
\* sub-criteria (equalTo, ascending, descending, a join) changes no filter
\* object and no sort of any other Criteria, whether that one was joined
\* with it or constructed from its toPlainObject().
C29_Snapshot ==
  [][Took({"equalTo", "ascending", "descending", "and", "nor", "or"})
       /\ queries[last'.self].parent = Null =>
       \A q \in Ids \ {last'.self} :
         /\ \A a \in C29_Tree(q) : heap'[a] = heap[a]
         /\ sorts'[queries[q]._sort] = sorts[queries[q]._sort]]_vars

\* ------------------------------------------------------------------- C30
\* the field entry a call left
C30_Entry(call) == heap'[FilterOf(call.self)].f[call.field]

\* C30: after every successful matches(field, regExp, options) the $options
\* of the field is the flag string of that call, and absent when the call
\* asked for no flag, whatever earlier calls stored; after near(field,
\* coord) without maxDistance the field has no $maxDistance.
C30_NoStaleOption ==
  [][/\ Took({"matches"}) =>
          IF matchFlags(C19_RegExp(last'), last'.args[2]) = <<>>
            THEN "$options" \notin DOMAIN C30_Entry(last')
            ELSE /\ "$options" \in DOMAIN C30_Entry(last')
                 /\ C30_Entry(last')["$options"]
                      = matchFlags(C19_RegExp(last'), last'.args[2])
      /\ Took({"near"}) /\ ~Truthy(last'.value) =>
          "$maxDistance" \notin DOMAIN C30_Entry(last')]_vars

====
